---- MODULE Spec2Model ----
(***************************************************************************)
(* Order-history synchronisation of monarch-amazon-sync: the Amazon        *)
(* functions of src/shared/api/amazonApi.ts and the WalmartProvider class, *)
(* modelled as state machines.                                             *)
(*                                                                         *)
(*   Spec        one run of fetchOrders (pagination, throttled detail      *)
(*               tasks, progress callbacks)                                *)
(*   SpecLive    the same run under fairness, for termination              *)
(*   SpecAuth    one run of the auth probe (checkAmazonAuth / doCheckAuth) *)
(*   SpecDetail  one run of fetchOrderTransactions on a detail document    *)
(*   SpecListing one run of orderListFromPage on a listing document        *)
(*   SpecPopupAuth  the auth-check effect of the popup's Main component     *)
(*   SpecWatchdog   the stall-timeout effect of Main beside a running sync  *)
(*   SpecForceSync  the Force sync button of Main                           *)
(*   SpecCheckAuth  one run of Provider.checkAuth                           *)
(***************************************************************************)
EXTENDS Integers, Sequences, FiniteSets, Bags, TLC

VARIABLES
    provider,     \* "Amazon" (amazonApi.ts) or "Walmart" (WalmartProvider)
    maxPages,     \* the maxPages argument; 0 stands for undefined
    listing,      \* the site: its listing pages, each a sequence of entries
    pc,           \* position of fetchOrders
    page,         \* loop variable i of the pagination loop
    endPage,      \* local endPage
    orders,       \* local orders: the accumulated listing records
    taskState,    \* per listing record: position of its processOrder call
    allOrders,    \* local allOrders (its elements and their multiplicity)
    progress,     \* argument of the latest onProgress call
    scanCalls,    \* number of page-scan-phase onProgress calls so far
    dlCalls,      \* number of download-phase onProgress calls so far
    requests,     \* the listing requests issued so far, in order
    pageOutcomes, \* outcome of each listing fetch that has settled
    errorLog,     \* number of errors handed to debugLog by processOrder
    authIn,       \* auth probe: what the fetch of the order page does
    authOut,      \* auth probe: the returned value
    detailIn,     \* fetchOrderTransactions: the order and its detail page
    detailOut,    \* fetchOrderTransactions: the returned Order
    listIn,       \* orderListFromPage: the listing document
    listOut,      \* orderListFromPage: the returned records and the log
    appData,      \* appStorage: per provider the status, last auth, year
    now,          \* Date.now(), in units of 24 hours
    checkedProviders, \* popup: the checkedProviders state
    probe,        \* popup: per provider, the position of its auth probe
    started,      \* popup: per provider, how often its probe was started
    progressData, \* progressStorage: phase, total, complete
    shown,        \* popup: the effect dependencies of the latest render
    timer,        \* popup: the timeout armed by the stall-timeout effect
    callback,     \* popup: the timeout callback that is running, if any
    sync,         \* the running sync: detail tasks left, Orders collected
    quiet,        \* 5-second ticks since the last callback / change
    history,      \* what has happened so far in the run
    rendered,     \* popup: the storage values the latest render of Main read
    messages      \* popup: the messages handed to chrome.runtime.sendMessage

syncVars == <<provider, maxPages, listing, pc, page, endPage, orders,
              taskState, allOrders, progress, scanCalls, dlCalls, requests,
              pageOutcomes, errorLog>>
authVars == <<authIn, authOut>>
detailVars == <<detailIn, detailOut>>
listVars == <<listIn, listOut>>
storeVars == <<appData, now>>
popupVars == <<checkedProviders, probe, started>>
watchVars == <<progressData, shown, timer, callback, sync, quiet, history>>
forceVars == <<rendered, messages>>
vars == <<syncVars, authVars, detailVars, listVars, storeVars, popupVars,
          watchVars, forceVars>>

----------------------------------------------------------------------------
(* Bounds of the model *)

\* most orders the site lists, over all its listing pages
MaxOrders == 6

\* numbers of listing pages the site may have
SitePageCounts == {1, 2}

\* values of the maxPages argument (0: undefined)
MaxPagesArgs == {0, 1, 2}

(* Program constants *)

\* promise-parallel-throttle's default maxInProgress, which Throttle.all(tasks)
\* uses when it is called without options
MaxInProgress == 5

\* index offset per listing page: index = (page - 1) * 10
PageStep == 10

Providers == {"Amazon", "Walmart"}

Max(a, b) == IF a >= b THEN a ELSE b

Min(a, b) == IF a <= b THEN a ELSE b

RECURSIVE Concat(_)
Concat(ss) == IF ss = <<>> THEN <<>> ELSE Head(ss) \o Concat(Tail(ss))

Range(s) == {s[k] : k \in DOMAIN s}

----------------------------------------------------------------------------
(* The site *)

\* the entry at position j of listing page p: its order number n, whether its
\* link is present and matches the identifier pattern, its date text, and
\* whether the link says orderSource=STORE
Entry(p, j) ==
    [n |-> (p - 1) * PageStep + j, link |-> "match",
     date |-> <<"J", "a", "n", " ", "0", "5">>, store |-> (j % 2 = 0)]

\* a listing page with n entries
SitePage(p, n) == [j \in 1..n |-> Entry(p, j)]

RECURSIVE Sum(_)
Sum(ns) == IF ns = <<>> THEN 0 ELSE Head(ns) + Sum(Tail(ns))

\* the listings the site may hold, as the number of entries on each page: one
\* page, or a first page with entries and a second page with at least one
\* entry and no more than the first, of at most MaxOrders entries in all
Listings ==
    {c \in UNION {[1..np -> 0..MaxOrders] : np \in SitePageCounts} :
        /\ Sum(c) <= MaxOrders
        /\ Len(c) > 1 => \A p \in 2..Len(c) : c[p] >= 1 /\ c[p] <= c[p - 1]}

\* the document the site serves for a listing request: the page's entries and
\* the highest page number its pagination control shows
ListingDoc(counts, p) ==
    IF p \in DOMAIN counts
    THEN [entries |-> SitePage(p, counts[p]), pagination |-> Len(counts)]
    ELSE [entries |-> <<>>, pagination |-> 0]

\* the body of a non-success response: no order entries, no pagination control
ErrorDoc == [entries |-> <<>>, pagination |-> 0]

----------------------------------------------------------------------------
(* Numbers and currency text.  A text is a sequence of one-character        *)
(* strings; a number is NaN or the decimal m / 10^e.                        *)

NaN == [nan |-> TRUE, m |-> 0, e |-> 0]

RECURSIVE Normal(_, _)
Normal(m, e) ==
    IF e > 0 /\ m % 10 = 0 THEN Normal(m \div 10, e - 1)
    ELSE [nan |-> FALSE, m |-> m, e |-> e]

Zero == Normal(0, 0)

Digits == {"0", "1", "2", "3", "4", "5", "6", "7", "8", "9"}

DigitVal(c) ==
    CASE c = "0" -> 0 [] c = "1" -> 1 [] c = "2" -> 2 [] c = "3" -> 3
      [] c = "4" -> 4 [] c = "5" -> 5 [] c = "6" -> 6 [] c = "7" -> 7
      [] c = "8" -> 8 [] c = "9" -> 9

RECURSIVE TakeDigits(_)
TakeDigits(s) ==
    IF s # <<>> /\ Head(s) \in Digits THEN <<Head(s)>> \o TakeDigits(Tail(s))
    ELSE <<>>

RECURSIVE DigitsValue(_, _)
DigitsValue(ds, acc) ==
    IF ds = <<>> THEN acc ELSE DigitsValue(Tail(ds), acc * 10 + DigitVal(Head(ds)))

Drop(s, n) == SubSeq(s, n + 1, Len(s))

RECURSIVE TrimLeft(_)
TrimLeft(s) == IF s # <<>> /\ Head(s) = " " THEN TrimLeft(Tail(s)) ELSE s

RECURSIVE TrimRight(_)
TrimRight(s) ==
    IF s # <<>> /\ s[Len(s)] = " " THEN TrimRight(SubSeq(s, 1, Len(s) - 1)) ELSE s

Trim(s) == TrimRight(TrimLeft(s))

\* JavaScript parseFloat: leading white space, an optional sign, then the
\* longest decimal literal; NaN when there is none
ParseFloat(text) ==
    LET s0 == TrimLeft(text)
        signed == s0 # <<>> /\ Head(s0) \in {"-", "+"}
        neg == s0 # <<>> /\ Head(s0) = "-"
        s1 == IF signed THEN Tail(s0) ELSE s0
        int == TakeDigits(s1)
        s2 == Drop(s1, Len(int))
        frac == IF s2 # <<>> /\ Head(s2) = "." THEN TakeDigits(Tail(s2)) ELSE <<>>
        m == DigitsValue(int \o frac, 0)
    IN  IF int = <<>> /\ frac = <<>> THEN NaN
        ELSE Normal(IF neg THEN -m ELSE m, Len(frac))

\* JavaScript parseInt, radix 10: as parseFloat without the fraction
ParseInt(text) ==
    LET s0 == TrimLeft(text)
        signed == s0 # <<>> /\ Head(s0) \in {"-", "+"}
        neg == s0 # <<>> /\ Head(s0) = "-"
        s1 == IF signed THEN Tail(s0) ELSE s0
        int == TakeDigits(s1)
        m == DigitsValue(int, 0)
    IN  IF int = <<>> THEN NaN
        ELSE [nan |-> FALSE, m |-> IF neg THEN -m ELSE m, e |-> 0]

\* a number used as a condition: neither NaN nor zero
Truthy(n) == ~n.nan /\ n.m # 0

\* text.replace(/[$\s-]/g, '')
StripMoney(text) == SelectSeq(text, LAMBDA c : c \notin {"$", " ", "-"})

\* moneyToNumber(money) with absoluteValue = true; an undefined argument
\* (absent) reaches parseFloat as undefined
moneyToNumber(money) ==
    IF money.present THEN ParseFloat(StripMoney(money.text)) ELSE NaN

\* text.replace(/[^0-9.-]+/g, '')
StripNonNumeric(text) == SelectSeq(text, LAMBDA c : c \in Digits \cup {".", "-"})

\* text ? parseFloat(text.replace(/[^0-9.-]+/g, '')) : 0
walmartAmount(text) ==
    IF text # <<>> THEN ParseFloat(StripNonNumeric(text)) ELSE Zero

\* s.split(sep) for a one-character separator
RECURSIVE Split(_, _)
Split(s, sep) ==
    LET k == CHOOSE n \in 1..(Len(s) + 1) :
                 /\ n = Len(s) + 1 \/ s[n] = sep
                 /\ \A q \in 1..(n - 1) : s[q] # sep
    IN  IF k = Len(s) + 1 THEN <<s>>
        ELSE <<SubSeq(s, 1, k - 1)>> \o Split(Drop(s, k), sep)

Text(t) == [present |-> TRUE, text |-> t]

Absent == [present |-> FALSE, text |-> <<>>]

\* parts[k] of a JavaScript array, k counted from 0: undefined past the end
At(parts, k) == IF k + 1 \in DOMAIN parts THEN Text(parts[k + 1]) ELSE Absent

----------------------------------------------------------------------------
(* Detail pages.  A detail document holds                                  *)
(*   items     the item elements in document order, each with its title    *)
(*             (a number naming the item; 0 for an empty title), its price *)
(*             text and whether its category label contains 'Refunded'     *)
(*   giftCard  Amazon: the text beside the 'Gift Card' subtotal            *)
(*   blocks    the transaction blocks in document order                    *)
(* A block holds                                                           *)
(*   kind      Amazon: which marker the row contains, 'Items shipped'      *)
(*             ("shipped"), 'Refund: Completed' ("refund") or neither      *)
(*             ("other"); Walmart: "refund" when the block's category      *)
(*             label contains 'Refunded'                                   *)
(*   tail      Amazon: the row text after 'shipped:' or ': Completed'      *)
(*             (absent when the row lacks that separator)                  *)
(*   date      Walmart: the date pattern's capture on the bill date        *)
(*             (absent when the pattern does not match)                    *)
(*   amount    Walmart: the text of the order total                        *)

\* items.push({title, price}) of the Amazon item scan
amazonItems(doc) ==
    LET parsed == [k \in DOMAIN doc.items |->
                     [title |-> doc.items[k].title,
                      price |-> moneyToNumber(Text(doc.items[k].price))]]
    IN  SelectSeq(parsed, LAMBDA it : it.title # 0)

\* items.push({orderId, title, price, refunded}) of the Walmart item scan
walmartItems(order, doc) ==
    LET parsed == [k \in DOMAIN doc.items |->
                     [orderId |-> order.id,
                      title |-> doc.items[k].title,
                      price |-> walmartAmount(Trim(doc.items[k].price)),
                      refunded |-> doc.items[k].refunded]]
    IN  SelectSeq(parsed, LAMBDA it : it.title # 0)

\* whether the callback of the Amazon row scan raises a TypeError on the row:
\* line.split(sep)[1] is undefined, or dateAndAmount.split('-')[1] is
amazonRowThrows(row) ==
    /\ row.kind \in {"shipped", "refund"}
    /\ \/ ~row.tail.present
       \/ ~At(Split(Trim(row.tail.text), "-"), 1).present

\* the transaction the Amazon row scan pushes for a shipment or refund row
amazonRowTransaction(order, items, row) ==
    LET dateAndAmount == Split(Trim(row.tail.text), "-")
        afterDollar == At(Split(dateAndAmount[2], "$"), 1)
    IN  [id |-> order.id,
         date |-> Trim(dateAndAmount[1]),
         amount |-> moneyToNumber(afterDollar),
         refund |-> (row.kind = "refund"),
         items |-> items]

\* the transactions of the rows up to the first row that raises
RECURSIVE amazonRows(_, _, _)
amazonRows(order, items, rows) ==
    IF rows = <<>> THEN <<>>
    ELSE IF Head(rows).kind = "other" THEN amazonRows(order, items, Tail(rows))
    ELSE <<amazonRowTransaction(order, items, Head(rows))>>
             \o amazonRows(order, items, Tail(rows))

\* the gift-card transaction, pushed when the amount is neither NaN nor 0
amazonGiftCard(order, items, doc) ==
    LET giftCardAmount == moneyToNumber(Text(doc.giftCard))
    IN  IF Truthy(giftCardAmount)
        THEN <<[id |-> order.id, date |-> order.date, amount |-> giftCardAmount,
                refund |-> FALSE, items |-> items]>>
        ELSE <<>>

\* Amazon's fetchOrderTransactions after the fetch: every transaction carries
\* the whole item list
amazonTransactions(order, doc) ==
    LET items == amazonItems(doc)
    IN  amazonGiftCard(order, items, doc) \o amazonRows(order, items, doc.blocks)

\* items.filter(item => item.refunded === refund)
itemsOfRefund(items, refund) == SelectSeq(items, LAMBDA it : it.refunded = refund)

\* the transaction the Walmart block scan pushes for one block
walmartBlockTransaction(order, items, block) ==
    LET refund == (block.kind = "refund")
    IN  [id |-> order.id,
         date |-> IF block.date.present THEN block.date.text ELSE <<>>,
         amount |-> walmartAmount(Trim(block.amount)),
         refund |-> refund,
         items |-> itemsOfRefund(items, refund)]

\* Walmart's fetchOrderTransactions after the fetch: one transaction per block
walmartTransactions(order, doc) ==
    LET items == walmartItems(order, doc)
    IN  [k \in DOMAIN doc.blocks |->
           walmartBlockTransaction(order, items, doc.blocks[k])]

\* whether parsing the document raises
parseThrows(prov, doc) ==
    /\ prov = "Amazon"
    /\ \E k \in DOMAIN doc.blocks : amazonRowThrows(doc.blocks[k])

\* the transactions fetchOrderTransactions builds from a parsed document
transactionsOf(prov, order, doc) ==
    IF prov = "Amazon" THEN amazonTransactions(order, doc)
    ELSE walmartTransactions(order, doc)

\* the returned Order built from the id and the transactions alone, without
\* the spread of the order argument
fetchOrderTransactionsBare(prov, order, doc) ==
    [id |-> order.id, transactions |-> transactionsOf(prov, order, doc)]

\* fetchOrderTransactions(order) on a fetched document: {...order, transactions}
fetchOrderTransactions(prov, order, doc) ==
    [f \in DOMAIN order \cup {"transactions"} |->
       IF f = "transactions" THEN transactionsOf(prov, order, doc) ELSE order[f]]

\* the items fetchOrderTransactions parsed from the document
parsedItems(prov, order, doc) ==
    IF prov = "Amazon" THEN amazonItems(doc) ELSE walmartItems(order, doc)

----------------------------------------------------------------------------
(* Listing pages *)

\* the identifier the replace() of orderListFromPage yields: the captured
\* group when the pattern matches, the whole href when it does not
orderId(entry) ==
    IF entry.link = "match" THEN <<"id", entry.n>> ELSE <<"href", entry.n>>

\* the record orderListFromPage pushes for an entry
orderOfEntry(prov, entry) ==
    IF prov = "Amazon"
    THEN [id |-> orderId(entry), date |-> Trim(entry.date)]
    ELSE [id |-> orderId(entry), date |-> Trim(entry.date),
          walmartStorePurchase |-> entry.store]

\* orderListFromPage($): one record per entry whose link is present
orderListFromPage(prov, doc) ==
    LET kept == SelectSeq(doc.entries, LAMBDA en : en.link # "missing")
    IN  [k \in DOMAIN kept |-> orderOfEntry(prov, kept[k])]

\* endPage after the first listing page: Amazon takes the highest number of
\* the pagination control; Walmart starts from 1 and lowers it to maxPages
\* when maxPages is given and smaller
endPageOf(prov, maxP, doc) ==
    IF prov = "Amazon" THEN Max(1, doc.pagination)
    ELSE IF maxP # 0 /\ maxP < 1 THEN maxP ELSE 1

\* the detail document the site serves for an order: an item in a refunded
\* category, an item in another, a shipment and a refund; the third order of
\* each listing page has a shipment row without the '-' separator
siteDetail(order) ==
    LET amt == <<"$", "1", "2", ".", "5", "0">>
        when == <<"J", "a", "n", " ", "0", "7">>
        row == when \o <<" ", "-", " ">> \o amt
        bad == order.id[2] % PageStep = 3
    IN  [items |-> <<[title |-> 1, price |-> amt, refunded |-> FALSE],
                     [title |-> 2, price |-> amt, refunded |-> TRUE]>>,
         giftCard |-> <<>>,
         blocks |-> <<[kind |-> "shipped",
                       tail |-> Text(IF bad THEN when ELSE row),
                       date |-> Text(when), amount |-> amt],
                      [kind |-> "refund", tail |-> Text(row),
                       date |-> Text(when), amount |-> amt]>>]

----------------------------------------------------------------------------
(* fetchOrders *)

\* the page-scan callback counting the pages from 0
scanProgressFromZero(total, complete) ==
    [phase |-> "PageScan", total |-> total, complete |-> complete - 1]

scanProgress(total, complete) ==
    [phase |-> "PageScan", total |-> total, complete |-> complete]

\* the arguments of the download-phase callback exchanged
downloadProgressSwapped(total, complete) ==
    [phase |-> "OrderDownload", total |-> complete, complete |-> total]

downloadProgress(total, complete) ==
    [phase |-> "OrderDownload", total |-> total, complete |-> complete]

\* index = page * 10 in place of (page - 1) * 10
pageRequestOffByOne(p) == [url |-> "orders", startIndex |-> p * PageStep]

\* the request processOrders issues for a page: index = (page - 1) * 10
pageRequest(p) == [url |-> "orders", startIndex |-> (p - 1) * PageStep]

\* the tasks Throttle.all has started and not yet seen settle
InProgress == {t \in DOMAIN taskState : taskState[t] \in {"fetching", "logging"}}

\* the detail fetches in flight
InFlight == {t \in DOMAIN taskState : taskState[t] = "fetching"}

Pending == {t \in DOMAIN taskState : taskState[t] = "pending"}

Settled == {t \in DOMAIN taskState : taskState[t] \in {"ok", "failed"}}

Succeeded == {t \in DOMAIN taskState : taskState[t] = "ok"}

\* Promise.all in place of Throttle.all: every task is started at once
canStartUnthrottled == TRUE

\* Throttle.all(tasks) with its default options: a task is started while
\* fewer than maxInProgress tasks are in progress
canStart == Cardinality(InProgress) < MaxInProgress

InitSync ==
    /\ provider \in Providers
    /\ maxPages \in MaxPagesArgs
    /\ listing \in Listings
    /\ pc = "page1"
    /\ page = 1
    /\ endPage = 1
    /\ orders = <<>>
    /\ taskState = <<>>
    /\ allOrders = EmptyBag
    /\ progress = [phase |-> "Idle", total |-> 0, complete |-> 0]
    /\ scanCalls = 0
    /\ dlCalls = 0
    /\ requests = <<[url |-> "orders"]>>
    /\ pageOutcomes = <<>>
    /\ errorLog = 0

\* the listing document a settled fetch yields: fetch resolves for a
\* non-success status too, with the error body
fetchedListing(p, outcome) ==
    IF outcome = "ok" THEN ListingDoc(listing, p) ELSE ErrorDoc

\* const allOrders = []; Throttle.all(orders.map(...)) is called
beginDownload(found) ==
    /\ pc' = "download"
    /\ taskState' = [t \in DOMAIN found |-> "pending"]

\* fetch of a listing page rejects (network error): the exception leaves
\* fetchOrders
ListingFetchRejects ==
    /\ UNCHANGED <<authVars, detailVars, listVars, storeVars, popupVars, watchVars, forceVars>>
    /\ pc \in {"page1", "pages"}
    /\ pc' = "raised"
    /\ pageOutcomes' = Append(pageOutcomes, "rejected")
    /\ UNCHANGED <<provider, maxPages, listing, page, endPage, orders, taskState,
                   allOrders, progress, scanCalls, dlCalls, requests, errorLog>>

\* fetch of the first listing page resolves: endPage, the two page-scan
\* callbacks and the first records
FirstPageResolves ==
    /\ UNCHANGED <<authVars, detailVars, listVars, storeVars, popupVars, watchVars, forceVars>>
    /\ pc = "page1"
    /\ \E outcome \in {"ok", "status"} :
         LET doc == fetchedListing(1, outcome)
             last == endPageOf(provider, maxPages, doc)
             found == orderListFromPage(provider, doc)
         IN  /\ endPage' = last
             /\ orders' = found
             /\ progress' = scanProgress(last, 1)
             /\ scanCalls' = scanCalls + 2
             /\ pageOutcomes' = Append(pageOutcomes, outcome)
             /\ IF 2 <= last
                THEN /\ page' = 2
                     /\ requests' = Append(requests, pageRequest(2))
                     /\ pc' = "pages"
                     /\ UNCHANGED taskState
                ELSE /\ beginDownload(found)
                     /\ UNCHANGED <<page, requests>>
    /\ UNCHANGED <<provider, maxPages, listing, allOrders, dlCalls, errorLog>>

\* fetch of listing page i resolves in processOrders: its records are
\* appended, the callback reports i pages complete, the loop goes on
NextPageResolves ==
    /\ UNCHANGED <<authVars, detailVars, listVars, storeVars, popupVars, watchVars, forceVars>>
    /\ pc = "pages"
    /\ \E outcome \in {"ok", "status"} :
         LET doc == fetchedListing(page, outcome)
             found == orders \o orderListFromPage(provider, doc)
         IN  /\ orders' = found
             /\ progress' = scanProgress(endPage, page)
             /\ scanCalls' = scanCalls + 1
             /\ pageOutcomes' = Append(pageOutcomes, outcome)
             /\ IF page + 1 <= endPage
                THEN /\ page' = page + 1
                     /\ requests' = Append(requests, pageRequest(page + 1))
                     /\ UNCHANGED <<pc, taskState>>
                ELSE /\ beginDownload(found)
                     /\ UNCHANGED <<page, requests>>
    /\ UNCHANGED <<provider, maxPages, listing, endPage, allOrders, dlCalls,
                   errorLog>>

\* Throttle.all starts the next task, in listing order: processOrder(order)
\* runs up to the fetch of the detail page
StartTask ==
    /\ UNCHANGED <<authVars, detailVars, listVars, storeVars, popupVars, watchVars, forceVars>>
    /\ pc = "download"
    /\ Pending # {}
    /\ canStart
    /\ LET t == CHOOSE x \in Pending : \A y \in Pending : x <= y
       IN  taskState' = [taskState EXCEPT ![t] = "fetching"]
    /\ UNCHANGED <<provider, maxPages, listing, pc, page, endPage, orders,
                   allOrders, progress, scanCalls, dlCalls, requests,
                   pageOutcomes, errorLog>>

\* processOrder without its try/catch: the task's promise rejects, and
\* Throttle.all, which fails fast, rejects with it
uncaught(t) ==
    /\ taskState' = [taskState EXCEPT ![t] = "failed"]
    /\ pc' = "raised"
    /\ UNCHANGED <<errorLog, allOrders, progress, dlCalls>>

\* the catch block of processOrder: the error goes to debugLog and the task
\* waits for it
caught(t) ==
    /\ taskState' = [taskState EXCEPT ![t] = "logging"]
    /\ errorLog' = errorLog + 1
    /\ UNCHANGED <<pc, allOrders, progress, dlCalls>>

\* allOrders.push(orderData) dropped: the task reports progress only
pushedNothing(t) ==
    /\ taskState' = [taskState EXCEPT ![t] = "ok"]
    /\ progress' = downloadProgress(Len(orders), BagCardinality(allOrders))
    /\ dlCalls' = dlCalls + 1
    /\ UNCHANGED <<pc, allOrders, errorLog>>

\* the progress callback reading the size of allOrders from before the push
pushedStale(t) ==
    LET orderData == fetchOrderTransactions(provider, orders[t], siteDetail(orders[t]))
    IN  /\ allOrders' = allOrders (+) SetToBag({orderData})
        /\ taskState' = [taskState EXCEPT ![t] = "ok"]
        /\ progress' = downloadProgress(Len(orders), BagCardinality(allOrders))
        /\ dlCalls' = dlCalls + 1
        /\ UNCHANGED <<pc, errorLog>>

\* the try block of processOrder after fetchOrderTransactions returned:
\* allOrders.push(orderData), then the progress callback
pushed(t) ==
    LET orderData == fetchOrderTransactions(provider, orders[t], siteDetail(orders[t]))
    IN  /\ allOrders' = allOrders (+) SetToBag({orderData})
        /\ taskState' = [taskState EXCEPT ![t] = "ok"]
        /\ progress' = downloadProgress(Len(orders), BagCardinality(allOrders'))
        /\ dlCalls' = dlCalls + 1
        /\ UNCHANGED <<pc, errorLog>>

\* the detail fetch of task t resolves and the document is parsed
DetailResolves ==
    /\ UNCHANGED <<authVars, detailVars, listVars, storeVars, popupVars, watchVars, forceVars>>
    /\ pc = "download"
    /\ \E t \in InFlight :
         IF parseThrows(provider, siteDetail(orders[t])) THEN caught(t) ELSE pushed(t)
    /\ UNCHANGED <<provider, maxPages, listing, page, endPage, orders,
                   scanCalls, requests, pageOutcomes>>

\* the detail fetch of task t rejects (network error)
DetailRejects ==
    /\ UNCHANGED <<authVars, detailVars, listVars, storeVars, popupVars, watchVars, forceVars>>
    /\ pc = "download"
    /\ \E t \in InFlight : caught(t)
    /\ UNCHANGED <<provider, maxPages, listing, page, endPage, orders,
                   scanCalls, requests, pageOutcomes>>

\* onProgress called inside the try block only: a failed task reports nothing
LogResolvesSilent ==
    /\ UNCHANGED <<authVars, detailVars, listVars, storeVars, popupVars, watchVars, forceVars>>
    /\ pc = "download"
    /\ \E t \in DOMAIN taskState :
         /\ taskState[t] = "logging"
         /\ taskState' = [taskState EXCEPT ![t] = "failed"]
    /\ UNCHANGED <<provider, maxPages, listing, pc, page, endPage, orders,
                   allOrders, progress, dlCalls, scanCalls, requests,
                   pageOutcomes, errorLog>>

\* debugLog(e) of the catch block resolves: the progress callback of the
\* failed task
LogResolves ==
    /\ UNCHANGED <<authVars, detailVars, listVars, storeVars, popupVars, watchVars, forceVars>>
    /\ pc = "download"
    /\ \E t \in DOMAIN taskState :
         /\ taskState[t] = "logging"
         /\ taskState' = [taskState EXCEPT ![t] = "failed"]
    /\ progress' = downloadProgress(Len(orders), BagCardinality(allOrders))
    /\ dlCalls' = dlCalls + 1
    /\ UNCHANGED <<provider, maxPages, listing, pc, page, endPage, orders,
                   allOrders, scanCalls, requests, pageOutcomes, errorLog>>

\* return allOrders without awaiting Throttle.all
ReturnWithoutAwait ==
    /\ UNCHANGED <<authVars, detailVars, listVars, storeVars, popupVars, watchVars, forceVars>>
    /\ pc = "download"
    /\ pc' = "returned"
    /\ UNCHANGED <<provider, maxPages, listing, page, endPage, orders, taskState,
                   allOrders, progress, scanCalls, dlCalls, requests,
                   pageOutcomes, errorLog>>

\* Throttle.all resolves once every task has settled (at once for no task):
\* return allOrders
Return ==
    /\ UNCHANGED <<authVars, detailVars, listVars, storeVars, popupVars, watchVars, forceVars>>
    /\ pc = "download"
    /\ Settled = DOMAIN taskState
    /\ pc' = "returned"
    /\ UNCHANGED <<provider, maxPages, listing, page, endPage, orders, taskState,
                   allOrders, progress, scanCalls, dlCalls, requests,
                   pageOutcomes, errorLog>>

Next ==
    \/ ListingFetchRejects
    \/ FirstPageResolves
    \/ NextPageResolves
    \/ StartTask
    \/ DetailResolves
    \/ DetailRejects
    \/ LogResolves
    \/ Return

InitAuthIdle == authIn = "idle" /\ authOut = [status |-> "not called"]

InitDetailIdle == detailIn = "idle" /\ detailOut = [called |-> FALSE]

InitListIdle == listIn = "idle" /\ listOut = [called |-> FALSE]

InitStoreIdle == appData = "idle" /\ now = 0

InitPopupIdle == checkedProviders = "idle" /\ probe = "idle" /\ started = "idle"

InitWatchIdle ==
    /\ progressData = "idle"
    /\ shown = "idle"
    /\ timer = "idle"
    /\ callback = "idle"
    /\ sync = "idle"
    /\ quiet = "idle"
    /\ history = "idle"

InitForceIdle == rendered = "idle" /\ messages = "idle"

Init ==
    /\ InitForceIdle
    /\ InitSync
    /\ InitAuthIdle
    /\ InitDetailIdle
    /\ InitListIdle
    /\ InitStoreIdle
    /\ InitPopupIdle
    /\ InitWatchIdle

Spec == Init /\ [][Next]_vars

\* every issued fetch settles, every awaited debugLog resolves, and a
\* continuation that is ready to run (the next task of Throttle.all, the
\* return) is run: a run does not stop while one of these steps can be taken
Fairness ==
    WF_vars(\/ ListingFetchRejects
            \/ FirstPageResolves
            \/ NextPageResolves
            \/ StartTask
            \/ DetailRejects
            \/ DetailResolves
            \/ LogResolves
            \/ Return)

\* the runs of fetchOrders with the arguments it has: the Amazon function
\* takes no maxPages
InitLive == Init /\ (provider = "Amazon" => maxPages = 0)

SpecLive == InitLive /\ [][Next]_vars /\ Fairness

----------------------------------------------------------------------------
(* Properties of fetchOrders *)

\* the Order task t pushes when its detail task succeeds
orderDataOf(t) == fetchOrderTransactions(provider, orders[t], siteDetail(orders[t]))

\* the number of entries on the listing pages up to maxPages (all of them when
\* maxPages is undefined)
EntriesUpTo(maxP) ==
    LET last == IF maxP = 0 THEN Len(listing) ELSE Min(maxP, Len(listing))
    IN  Sum(SubSeq(listing, 1, last))

\* C1: during the detail-download phase, whatever the number of listing
\* records and the order of completions, at most MaxInProgress detail fetches
\* are in flight, and at most MaxInProgress tasks are in progress.
C1_InFlightBounded ==
    /\ Cardinality(InFlight) <= MaxInProgress
    /\ Cardinality(InProgress) <= MaxInProgress

\* C1 witness: more records than the limit, the limit reached, a task waiting.
C1_Witness ==
    /\ Len(orders) > MaxInProgress
    /\ Cardinality(InFlight) = MaxInProgress
    /\ Pending # {}

\* C2: an exception of a detail task is caught and logged in that task:
\* fetchOrders never raises once the download phase began, every failure is
\* logged once, and when fetchOrders returns every task has run to its end and
\* the result holds the Order of every task that succeeded.
C2_FailureIsolated ==
    /\ pc = "raised" => Settled = {} /\ InProgress = {}
    /\ errorLog = Cardinality({t \in DOMAIN taskState :
                                  taskState[t] \in {"logging", "failed"}})
    /\ pc = "returned" =>
         /\ Settled = DOMAIN taskState
         /\ \A t \in Succeeded : BagIn(orderDataOf(t), allOrders)

\* C2 witness: fetchOrders returned although a task failed, with a task that
\* succeeded after the failure was logged.
C2_Witness ==
    /\ pc = "returned"
    /\ \E t \in DOMAIN taskState : taskState[t] = "failed"
    /\ \E t \in DOMAIN taskState : taskState[t] = "ok"
    /\ progress.complete > 0

\* C3: the result holds exactly the Orders of the tasks that completed without
\* error, each once; its size is the number of those tasks.
C3_ResultIsSucceeded ==
    pc \in {"download", "returned"} =>
        /\ allOrders = SetToBag({orderDataOf(t) : t \in Succeeded})
        /\ BagCardinality(allOrders) = Cardinality(Succeeded)

\* C3 witness: MaxOrders orders were discovered, exactly one detail task
\* failed, and the result holds the others.
C3_Witness ==
    /\ pc = "returned"
    /\ Len(orders) = MaxOrders
    /\ Cardinality(Succeeded) = MaxOrders - 1
    /\ BagCardinality(allOrders) = MaxOrders - 1
    /\ errorLog = 1

\* C4: every completed detail task, succeeded or failed, has made exactly one
\* download-phase callback, with total the number of listing records and
\* complete the size of the result at that moment; K tasks make K callbacks.
C4_OneCallbackPerTask ==
    /\ dlCalls = Cardinality(Settled)
    /\ dlCalls > 0 =>
         progress = downloadProgress(Len(orders), BagCardinality(allOrders))
    /\ pc = "returned" => dlCalls = Len(orders)

\* C4 witness: a run that returned after failed and succeeded tasks, the last
\* callback coming from a failed task.
C4_Witness ==
    /\ pc = "returned"
    /\ Len(orders) >= 3
    /\ dlCalls = Len(orders)
    /\ \E t \in DOMAIN taskState : taskState[t] = "failed"
    /\ progress.complete = Cardinality(Succeeded)
    /\ progress.complete > 0
    /\ progress.complete < progress.total

AllFetchesSucceeded ==
    /\ \A k \in DOMAIN pageOutcomes : pageOutcomes[k] = "ok"
    /\ Succeeded = DOMAIN taskState

\* C5: called with maxPages = 2 on a listing of 2 pages, every fetch
\* succeeding, fetchOrders returns at most as many Orders as the two pages
\* list and its last callback reports complete = total = the number of
\* entries on both pages.
C5_FinalProgressCoversPages ==
    (pc = "returned" /\ maxPages = 2 /\ Len(listing) = 2 /\ AllFetchesSucceeded) =>
        /\ BagCardinality(allOrders) <= EntriesUpTo(maxPages)
        /\ progress.complete = EntriesUpTo(maxPages)
        /\ progress.total = EntriesUpTo(maxPages)

SomeListingFetchFailed == \E k \in DOMAIN pageOutcomes : pageOutcomes[k] # "ok"

\* C6: once the fetch of a listing page has failed, by a network error or by
\* a non-success status, fetchOrders does not return, starts no detail fetch
\* and makes no download-phase callback.
C6_ListingFailureIsFatal ==
    SomeListingFetchFailed =>
        /\ pc \notin {"download", "returned"}
        /\ taskState = <<>>
        /\ dlCalls = 0

\* the listing pages whose fetch has resolved, in order
PagesRead == SelectSeq(pageOutcomes, LAMBDA o : o # "rejected")

\* the records of the listing page p as it was fetched
RecordsOfPage(p) ==
    orderListFromPage(provider, fetchedListing(p, pageOutcomes[p]))

\* the page count N fetchOrders is to use once page 1 is read: Amazon's is
\* the highest number of the pagination control of page 1 (its fetchOrders
\* takes no maxPages); Walmart's is a single page, capped by maxPages when
\* the caller supplies it
PageCount ==
    LET doc == fetchedListing(1, pageOutcomes[1])
    IN  IF provider = "Amazon"
        THEN (IF doc.pagination > 1 THEN doc.pagination ELSE 1)
        ELSE (IF maxPages # 0 /\ maxPages < 1 THEN maxPages ELSE 1)

firstCallback(last) == scanProgress(last, 0)

InRange(pr) == 0 <= pr.complete /\ pr.complete <= pr.total

Started == {t \in DOMAIN taskState : taskState[t] # "pending"}

\* C15: no detail fetch is issued before the last listing page is read; no
\* page-scan callback follows a download-phase callback; and the last
\* page-scan callback, the one in effect when the download phase begins,
\* reports complete = total.
C15_StagesOrdered ==
    /\ [](/\ pc \in {"page1", "pages"} =>
                /\ taskState = <<>>
                /\ dlCalls = 0
                /\ progress.phase # "OrderDownload"
          /\ Started # {} => Len(PagesRead) = endPage
          /\ dlCalls > 0 => scanCalls = endPage + 1)
    /\ [][/\ progress.phase = "OrderDownload" =>
                progress'.phase = "OrderDownload" /\ scanCalls' = scanCalls
          /\ (pc # "download" /\ pc' = "download") =>
                /\ progress'.phase = "PageScan"
                /\ progress'.complete = progress'.total
                /\ progress'.total = Len(PagesRead')]_vars

\* C15 witness: the download phase of a two-page run is under way, after
\* three page-scan callbacks, a task waiting for its turn while others run.
C15_Witness ==
    /\ pc = "download"
    /\ Len(PagesRead) = 2
    /\ scanCalls = 3
    /\ dlCalls >= 1
    /\ Started # {}
    /\ Pending # {}

\* the tasks that changed position in the step
Moved == {t \in DOMAIN taskState : taskState'[t] # taskState[t]}

\* the Orders of the result collection that carry the id of task t's record
ResultsOf(t) == {o \in BagToSet(allOrders) : o.id = orders[t].id}

\* C16: in every step of the download phase only one task moves; the result
\* collection changes only by the append of one Order, that of the task that
\* just succeeded, which had none in it; every download-phase callback of the
\* step reports the size the collection has then; and no append is lost or
\* made twice: the collection holds one Order per succeeded task.
C16_BookkeepingAtomic ==
    /\ [](pc \in {"download", "returned"} =>
             /\ \A t \in Succeeded :
                   \E o \in ResultsOf(t) :
                       ResultsOf(t) = {o} /\ CopiesIn(o, allOrders) = 1
             /\ BagCardinality(allOrders) = Cardinality(Succeeded))
    /\ [][pc = "download" =>
             /\ Cardinality(Moved) <= 1
             /\ \/ allOrders' = allOrders
                \/ \E t \in Moved :
                      /\ taskState[t] = "fetching"
                      /\ taskState'[t] = "ok"
                      /\ ResultsOf(t) = {}
                      /\ \E o \in BagToSet(allOrders') :
                            /\ o.id = orders[t].id
                            /\ allOrders' = allOrders (+) SetToBag({o})
             /\ dlCalls' # dlCalls =>
                   /\ dlCalls' = dlCalls + 1
                   /\ progress'.complete = BagCardinality(allOrders')]_vars

\* C16 witness: tasks complete out of order and interleaved: a failed task
\* waits for its log entry, a later task has already appended its Order,
\* another fetch is in flight.
C16_Witness ==
    /\ pc = "download"
    /\ \E t, u \in DOMAIN taskState :
          /\ t < u
          /\ taskState[t] = "logging"
          /\ taskState[u] = "ok"
    /\ InFlight # {}
    /\ progress.complete = BagCardinality(allOrders)
    /\ progress.complete >= 1

\* C22: when every issued fetch settles, fetchOrders eventually returns or
\* raises; once it has returned, every one of its detail tasks has completed
\* and made its progress callback, no detail fetch is in flight, and no
\* progress callback follows.
C22_Terminates ==
    /\ <>(pc \in {"returned", "raised"})
    /\ [](pc = "returned" =>
             /\ DOMAIN taskState = DOMAIN orders
             /\ Settled = DOMAIN taskState
             /\ InFlight = {}
             /\ dlCalls = Len(orders))
    /\ [][pc = "returned" =>
             /\ progress' = progress
             /\ scanCalls' = scanCalls
             /\ dlCalls' = dlCalls
             /\ taskState' = taskState]_vars

\* C22 witness: fetchOrders has returned after more detail tasks than
\* Throttle.all runs at once, some of them failed.
C22_Witness ==
    /\ pc = "returned"
    /\ Len(orders) > MaxInProgress
    /\ \E t, u \in DOMAIN taskState :
          taskState[t] = "failed" /\ taskState[u] = "ok"

----------------------------------------------------------------------------
(* The auth probe: checkAmazonAuth and WalmartProvider.doCheckAuth *)

\* s.includes(sub)
Includes(s, sub) ==
    \E k \in 0..(Len(s) - Len(sub)) : SubSeq(s, k + 1, k + Len(sub)) = sub

\* s.replace(sub, ''): the first occurrence of sub removed
RemoveFirst(s, sub) ==
    IF ~Includes(s, sub) THEN s
    ELSE LET k == CHOOSE n \in 0..(Len(s) - Len(sub)) :
                      /\ SubSeq(s, n + 1, n + Len(sub)) = sub
                      /\ \A q \in 0..(n - 1) : SubSeq(s, q + 1, q + Len(sub)) # sub
         IN  SubSeq(s, 1, k) \o Drop(s, k + Len(sub))

Infinity == [nan |-> FALSE, inf |-> TRUE]

\* Math.max(...nums) on parseInt results, in place of Math.min
MathMax(nums) ==
    IF nums = <<>> THEN Infinity
    ELSE IF \E k \in DOMAIN nums : nums[k].nan THEN NaN
    ELSE CHOOSE x \in Range(nums) : \A y \in Range(nums) : y.m <= x.m

\* Math.min(...nums) on parseInt results: Infinity for no argument, NaN when
\* an argument is NaN
MathMin(nums) ==
    IF nums = <<>> THEN Infinity
    ELSE IF \E k \in DOMAIN nums : nums[k].nan THEN NaN
    ELSE CHOOSE x \in Range(nums) : \A y \in Range(nums) : x.m <= y.m

\* the heading text the provider's selector looks for
signInMarker(prov) == IF prov = "Amazon" THEN "Sign in" ELSE "Sign In"

\* yearOptions: for each option whose value attribute includes 'year', the
\* trimmed value with 'year-' removed
yearOptions(options) ==
    LET withYear == SelectSeq(options,
                       LAMBDA o : o.present /\ Includes(o.text, <<"y", "e", "a", "r">>))
    IN  [k \in DOMAIN withYear |->
           RemoveFirst(Trim(withYear[k].text), <<"y", "e", "a", "r", "-">>)]

\* lowestYear = Math.min(...yearOptions.map(x => parseInt(x)))
lowestYear(options) ==
    LET ys == yearOptions(options)
    IN  MathMin([k \in DOMAIN ys |-> ParseInt(ys[k])])

\* the probe without its try/catch: the exception reaches the caller
probeUncaught(prov, in) ==
    IF in.raises # "none" THEN [status |-> "raised"]
    ELSE IF signInMarker(prov) \in in.headings THEN [status |-> "NotLoggedIn"]
    ELSE [status |-> "Success", startingYear |-> lowestYear(in.options)]

\* the probe: Failure from the catch block when the fetch or the reading of
\* the body raises, NotLoggedIn when the sign-in heading is found, else
\* Success with the lowest year
doCheckAuth(prov, in) ==
    IF in.raises # "none" THEN [status |-> "Failure"]
    ELSE IF signInMarker(prov) \in in.headings THEN [status |-> "NotLoggedIn"]
    ELSE [status |-> "Success", startingYear |-> lowestYear(in.options)]

\* most options of the year filter
MaxOptions == 3

\* values of the options of the year filter (absent: no value attribute)
OptionValues ==
    {Text(<<"y", "e", "a", "r", "-", "2", "0", "2", "1">>), Text(<<" ", "y", "e", "a", "r", "-", "2", "0", "1", "9", " ">>),
     Text(<<"y", "e", "a", "r", "-", "2", "0", "2", "0">>),
     Text(<<"l", "a", "s", "t", "3", "0">>), Text(<<"m", "o", "n", "t", "h", "s", "-", "3">>), Absent}

SeqsUpTo(S, n) == UNION {[1..k -> S] : k \in 0..n}

AuthInputs ==
    [raises : {"none", "fetch", "text"},
     headings : SUBSET {"Sign in", "Sign In"},
     options : SeqsUpTo(OptionValues, MaxOptions)]

NotCalled == [status |-> "not called"]

\* fetchOrders as it is left alone by the other specifications
SyncIdle ==
    /\ maxPages = 0
    /\ listing = <<0>>
    /\ pc = "idle"
    /\ page = 1
    /\ endPage = 1
    /\ orders = <<>>
    /\ taskState = <<>>
    /\ allOrders = EmptyBag
    /\ progress = [phase |-> "Idle", total |-> 0, complete |-> 0]
    /\ scanCalls = 0
    /\ dlCalls = 0
    /\ requests = <<>>
    /\ pageOutcomes = <<>>
    /\ errorLog = 0

InitAuth ==
    /\ InitForceIdle
    /\ provider \in Providers
    /\ SyncIdle
    /\ InitDetailIdle
    /\ InitListIdle
    /\ InitStoreIdle
    /\ InitPopupIdle
    /\ InitWatchIdle
    /\ authIn \in AuthInputs
    /\ authOut = NotCalled

\* one call of the probe
AuthProbe ==
    /\ authOut = NotCalled
    /\ authOut' = doCheckAuth(provider, authIn)
    /\ UNCHANGED <<syncVars, detailVars, listVars, storeVars, popupVars, authIn, watchVars, forceVars>>

NextAuth == AuthProbe

SpecAuth == InitAuth /\ [][NextAuth]_vars

(* Properties of the auth probe *)

\* whether an option is year-valued: its trimmed value is 'year-' and digits
IsYearValued(o) ==
    /\ o.present
    /\ LET v == Trim(o.text)
       IN  /\ Len(v) > 5
           /\ SubSeq(v, 1, 5) = <<"y", "e", "a", "r", "-">>
           /\ \A k \in 6..Len(v) : v[k] \in Digits

YearOf(o) == DigitsValue(Drop(Trim(o.text), 5), 0)

YearsOf(options) ==
    {YearOf(options[k]) : k \in {q \in DOMAIN options : IsYearValued(options[q])}}

\* C7: the probe returns a status and never raises: NotLoggedIn whenever the
\* fetched document holds the provider's sign-in heading, whatever its year
\* options; Failure whenever the fetch or the reading raises; Success only
\* otherwise.
C7_ProbeStatus ==
    authOut # NotCalled =>
        /\ authOut.status \in {"Success", "NotLoggedIn", "Failure"}
        /\ authIn.raises # "none" => authOut.status = "Failure"
        /\ (authIn.raises = "none" /\ signInMarker(provider) \in authIn.headings)
              => authOut.status = "NotLoggedIn"
        /\ authOut.status = "Success" =>
              (authIn.raises = "none" /\ signInMarker(provider) \notin authIn.headings)

\* C7 witness: NotLoggedIn returned for a document that also holds year
\* options.
C7_Witness ==
    /\ authOut.status = "NotLoggedIn"
    /\ YearsOf(authIn.options) # {}

----------------------------------------------------------------------------
(* fetchOrderTransactions on its own *)

\* most item elements and most transaction blocks of a detail document
MaxItems == 3

MaxBlocks == 2

SampleAmount == <<"$", "1", "2", ".", "5", "0">>

SampleDate == <<"J", "a", "n", " ", "0", "7">>

SampleRow == SampleDate \o <<" ", "-", " ">> \o SampleAmount

\* the item element at position k of a document, by kind: titles name the
\* position, an untitled element has the empty title
itemElement(kind, k) ==
    CASE kind = "plain" ->
           [title |-> k, price |-> SampleAmount, refunded |-> FALSE]
      [] kind = "refunded" ->
           [title |-> k, price |-> SampleAmount, refunded |-> TRUE]
      [] kind = "unpriced" ->
           [title |-> k, price |-> <<>>, refunded |-> FALSE]
      [] kind = "untitled" ->
           [title |-> 0, price |-> SampleAmount, refunded |-> TRUE]

ItemKinds == {"plain", "refunded", "unpriced", "untitled"}

\* the transaction blocks a document may hold: a shipment and a refund as the
\* sites print them, a block that is neither, a shipment row without the '-'
\* between date and amount, a refund without '$' before the amount, and a
\* shipment row without the 'shipped:' separator
BlockPool ==
    {[kind |-> "shipped", tail |-> Text(SampleRow), date |-> Text(SampleDate),
      amount |-> SampleAmount],
     [kind |-> "refund", tail |-> Text(SampleRow), date |-> Text(SampleDate),
      amount |-> SampleAmount],
     [kind |-> "other", tail |-> Absent, date |-> Absent, amount |-> <<>>],
     [kind |-> "shipped", tail |-> Text(SampleDate), date |-> Absent,
      amount |-> <<"N", "/", "A">>],
     [kind |-> "refund", tail |-> Text(SampleDate \o <<" ", "-", " ", "3">>),
      date |-> Text(SampleDate), amount |-> <<"-", "$", "3">>],
     [kind |-> "shipped", tail |-> Absent, date |-> Text(SampleDate),
      amount |-> SampleAmount]}

DetailDocs(prov) ==
    {[items |-> [k \in DOMAIN kinds |-> itemElement(kinds[k], k)],
      giftCard |-> gift,
      blocks |-> blocks] :
        kinds \in SeqsUpTo(ItemKinds, MaxItems),
        gift \in IF prov = "Amazon" THEN {<<>>, SampleAmount} ELSE {<<>>},
        blocks \in SeqsUpTo(BlockPool, MaxBlocks)}

SampleOrder(prov) == orderOfEntry(prov, Entry(1, 2))

\* the orders fetchOrderTransactions is called with: listing records, of a
\* store purchase and of an online one, and a record that already went
\* through fetchOrderTransactions once
SampleOrders(prov) ==
    {SampleOrder(prov),
     orderOfEntry(prov, Entry(2, 1)),
     fetchOrderTransactions(prov, orderOfEntry(prov, Entry(1, 1)),
                            [items |-> <<>>, giftCard |-> <<>>, blocks |-> <<>>])}

InitDetail ==
    /\ InitForceIdle
    /\ provider \in Providers
    /\ SyncIdle
    /\ InitAuthIdle
    /\ InitListIdle
    /\ InitStoreIdle
    /\ InitPopupIdle
    /\ InitWatchIdle
    /\ detailIn \in [order : SampleOrders(provider),
                     rejects : BOOLEAN,
                     doc : DetailDocs(provider)]
    /\ detailOut = [called |-> FALSE]

\* one call of fetchOrderTransactions(order): it raises when the fetch
\* rejects or the row scan raises, else returns the order with transactions
DetailFetch ==
    /\ ~detailOut.called
    /\ detailOut' =
         IF detailIn.rejects \/ parseThrows(provider, detailIn.doc)
         THEN [called |-> TRUE, threw |-> TRUE]
         ELSE [called |-> TRUE, threw |-> FALSE,
               order |-> fetchOrderTransactions(provider, detailIn.order, detailIn.doc)]
    /\ UNCHANGED <<syncVars, authVars, listVars, storeVars, popupVars, detailIn, watchVars, forceVars>>

NextDetail == DetailFetch

SpecDetail == InitDetail /\ [][NextDetail]_vars

(* Properties of fetchOrderTransactions *)

Returned == detailOut.called /\ ~detailOut.threw

\* the items parsed from the document of the call
Parsed == parsedItems(provider, detailIn.order, detailIn.doc)

\* the parsed refunded flag of an item; an Amazon item, parsed without the
\* flag, counts as not refunded
Flag(it) == IF "refunded" \in DOMAIN it THEN it.refunded ELSE FALSE

\* the items of all transactions with refund = g, in order
Grouping(g) ==
    LET ts == SelectSeq(detailOut.order.transactions, LAMBDA t : t.refund = g)
    IN  Concat([k \in DOMAIN ts |-> ts[k].items])

Occurrences(seq, x) == Cardinality({k \in DOMAIN seq : seq[k] = x})

\* C9: in the returned Order no item occurs twice in the grouping of the
\* refund = false transactions or in that of the refund = true transactions;
\* a parsed item occurs only in the grouping of its parsed refunded flag, and
\* it does occur there when the Order has a transaction of that flag (an item
\* is omitted only for want of such a transaction).
C9_ItemsPartitioned ==
    Returned =>
        /\ \A g \in BOOLEAN : \A k \in DOMAIN Grouping(g) :
              Occurrences(Grouping(g), Grouping(g)[k]) = 1
        /\ \A k \in DOMAIN Parsed : \A g \in BOOLEAN :
              /\ Occurrences(Grouping(g), Parsed[k]) > 0 => Flag(Parsed[k]) = g
              /\ (/\ Flag(Parsed[k]) = g
                  /\ \E q \in DOMAIN detailOut.order.transactions :
                        detailOut.order.transactions[q].refund = g)
                    => Occurrences(Grouping(g), Parsed[k]) > 0

\* C10: every transaction of the returned Order holds exactly the parsed
\* items whose refunded flag equals the transaction's refund flag.
C10_TransactionItemsMatchRefund ==
    Returned =>
        \A k \in DOMAIN detailOut.order.transactions :
            LET t == detailOut.order.transactions[k]
            IN  t.items = SelectSeq(Parsed, LAMBDA it : Flag(it) = t.refund)

\* the detail document of the call was fetched
Fetched == detailOut.called /\ ~detailIn.rejects

\* every amount of the returned Order is a number
AmountsAreNumbers ==
    \A k \in DOMAIN detailOut.order.transactions :
        ~detailOut.order.transactions[k].amount.nan

\* C12: on a fetched detail document fetchOrderTransactions returns the
\* Order, whatever the document lacks: it does not raise, and a date or an
\* amount that cannot be read becomes the empty date or a number, not an error
\* and not NaN.
C12_MissIsNotAnError ==
    Fetched =>
        /\ ~detailOut.threw
        /\ AmountsAreNumbers

\* C17: the Order fetchOrderTransactions returns has the fields of its
\* argument, each with the argument's value (id, date, provider flags), and
\* the transactions besides; every transaction's id is the Order's id.
C17_IdentityKept ==
    Returned =>
        /\ DOMAIN detailOut.order = DOMAIN detailIn.order \cup {"transactions"}
        /\ \A f \in DOMAIN detailIn.order \ {"transactions"} :
              detailOut.order[f] = detailIn.order[f]
        /\ \A k \in DOMAIN detailOut.order.transactions :
              detailOut.order.transactions[k].id = detailIn.order.id

\* C17 witness: an Order of a store purchase returned with two transactions.
C17_Witness ==
    /\ Returned
    /\ "walmartStorePurchase" \in DOMAIN detailIn.order
    /\ detailIn.order.walmartStorePurchase
    /\ detailOut.order.walmartStorePurchase
    /\ detailOut.order.date = detailIn.order.date
    /\ Len(detailOut.order.transactions) = 2

----------------------------------------------------------------------------
(* orderListFromPage on its own *)

\* most entries of a listing document
MaxEntries == 4

\* how the link of a listing entry may look: present with an href the
\* identifier pattern matches, not found by the selector, or present with an
\* href the pattern does not match (Walmart: no '/' after the order number;
\* Amazon: nothing but '&' or '#' after 'orderID=')
LinkKinds == {"match", "missing", "nomatch"}

\* the entry at position j of the document, with a link of the given kind
listEntry(kind, j) == [Entry(1, j) EXCEPT !.link = kind]

ListingDocs ==
    {[entries |-> [j \in DOMAIN kinds |-> listEntry(kinds[j], j)],
      pagination |-> 1] : kinds \in SeqsUpTo(LinkKinds, MaxEntries)}

\* the debugLog calls of orderListFromPage: Walmart logs each entry without an
\* id; Amazon's if (id) has no else branch
listingLogs(prov, doc) ==
    IF prov = "Walmart"
    THEN Cardinality({k \in DOMAIN doc.entries : doc.entries[k].link = "missing"})
    ELSE 0

InitListing ==
    /\ InitForceIdle
    /\ provider \in Providers
    /\ SyncIdle
    /\ InitAuthIdle
    /\ InitDetailIdle
    /\ InitStoreIdle
    /\ InitPopupIdle
    /\ InitWatchIdle
    /\ listIn \in ListingDocs
    /\ listOut = [called |-> FALSE]

\* one call of orderListFromPage($): every callback runs inside try/catch, so
\* the call returns
ListingExtract ==
    /\ ~listOut.called
    /\ listOut' = [called |-> TRUE, threw |-> FALSE,
                   orders |-> orderListFromPage(provider, listIn),
                   logged |-> listingLogs(provider, listIn)]
    /\ UNCHANGED <<syncVars, authVars, detailVars, storeVars, popupVars, listIn, watchVars, forceVars>>

NextListing == ListingExtract

SpecListing == InitListing /\ [][NextListing]_vars

(* Properties of orderListFromPage *)

\* the entries whose link is present and matches the identifier pattern
WellFormed == SelectSeq(listIn.entries, LAMBDA en : en.link = "match")

\* the entries whose order identifier cannot be recovered
Unrecoverable == {k \in DOMAIN listIn.entries : listIn.entries[k].link # "match"}

\* the records of the well-formed entries are returned, in document order,
\* whatever the other entries are, and the call does not raise
ListingKeepsWellFormed ==
    listOut.called =>
        /\ ~listOut.threw
        /\ \A k \in DOMAIN WellFormed :
              \E q \in DOMAIN listOut.orders :
                  listOut.orders[q] = orderOfEntry(provider, WellFormed[k])
        /\ Unrecoverable = {} =>
              /\ Len(listOut.orders) = Len(listIn.entries)
              /\ \A q \in DOMAIN listOut.orders : listOut.orders[q].id[1] = "id"

\* C11: orderListFromPage returns exactly the records of the well-formed
\* entries, each with its identifier, without raising; every entry whose
\* identifier cannot be recovered (link missing, or present but not matching
\* the pattern) is left out and logged.
C11_ListingExtraction ==
    listOut.called =>
        /\ ~listOut.threw
        /\ listOut.orders = [k \in DOMAIN WellFormed |->
                               orderOfEntry(provider, WellFormed[k])]
        /\ listOut.logged = Cardinality(Unrecoverable)

----------------------------------------------------------------------------
(* The popup: the auth-check effect of Main *)

\* the providers array of Main
PopupProviders == {"Amazon", "Costco", "Walmart"}

\* 1000 * 60 * 60 * 24 milliseconds, the unit of now
Day == 1

\* most days that pass while the popup is open
MaxDays == 1

\* most starts of one provider's probe the model follows
MaxStarts == 2

AuthStatuses == {"Success", "NotLoggedIn", "Failure", "Pending"}

\* what a provider's checkAuth resolves with; the year 0 stands for undefined
ProbeResponses ==
    {[status |-> "Success", startingYear |-> 2019],
     [status |-> "NotLoggedIn", startingYear |-> 0],
     [status |-> "Failure", startingYear |-> 0]}

\* appStorage.patch of one provider's keys
patch(data, p, fields) ==
    [data EXCEPT ![p] = [f \in DOMAIN data[p] \cup DOMAIN fields |->
                            IF f \in DOMAIN fields THEN fields[f] ELSE data[p][f]]]

\* provider.status === AuthStatus.Success &&
\* new Date(provider.lastUpdated).getTime() > Date.now() - 1000 * 60 * 60 * 24
freshSuccess(p) ==
    appData[p].status = "Success" /\ appData[p].lastAuth > now - Day

\* the effect without the checkedProviders test
proceedsUnchecked(p) == ~freshSuccess(p)

\* the providers the effect does not return early for
proceeds(p) == ~(freshSuccess(p) \/ checkedProviders[p])

\* provider.updateStatus(status, Date.now(), startingYear): the patch of the
\* provider's status, last auth and oldest year
updateStatus(data, p, response) ==
    patch(data, p, [status |-> response.status, lastAuth |-> now,
                    year |-> response.startingYear])

InitPopupAuth ==
    /\ InitForceIdle
    /\ provider = "Amazon"
    /\ SyncIdle
    /\ InitAuthIdle
    /\ InitDetailIdle
    /\ InitListIdle
    /\ InitWatchIdle
    /\ appData \in [PopupProviders ->
                      [status : AuthStatuses, lastAuth : {-1, 0}, year : {2015}]]
    /\ now = 0
    /\ checkedProviders = [p \in PopupProviders |-> FALSE]
    /\ probe = [p \in PopupProviders |-> [at |-> "none"]]
    /\ started = [p \in PopupProviders |-> 0]

\* one run of the effect, after a render: for every provider it does not
\* return early for, setCheckedProviders and the patch of Pending are issued
AuthEffect ==
    /\ \E p \in PopupProviders : proceeds(p) /\ started[p] < MaxStarts
    /\ checkedProviders' = [p \in PopupProviders |->
                               checkedProviders[p] \/ proceeds(p)]
    /\ probe' = [p \in PopupProviders |->
                    IF proceeds(p) THEN [at |-> "patching"] ELSE probe[p]]
    /\ started' = [p \in PopupProviders |->
                      IF proceeds(p) THEN started[p] + 1 ELSE started[p]]
    /\ UNCHANGED <<syncVars, authVars, detailVars, listVars, storeVars, watchVars, forceVars>>

\* the patch of Pending is stored and its promise resolves: checkAuth() is
\* called
PendingStored ==
    /\ \E p \in PopupProviders :
          /\ probe[p].at = "patching"
          /\ appData' = patch(appData, p, [status |-> "Pending"])
          /\ probe' = [probe EXCEPT ![p] = [at |-> "probing"]]
    /\ UNCHANGED <<syncVars, authVars, detailVars, listVars, now,
                   checkedProviders, started, watchVars, forceVars>>

\* checkAuth() resolves: updateStatus stores the response
ProbeResolves ==
    /\ \E p \in PopupProviders : \E response \in ProbeResponses :
          /\ probe[p].at = "probing"
          /\ appData' = updateStatus(appData, p, response)
          /\ probe' = [probe EXCEPT ![p] = [at |-> "done", response |-> response]]
    /\ UNCHANGED <<syncVars, authVars, detailVars, listVars, now,
                   checkedProviders, started, watchVars, forceVars>>

\* 24 hours pass while the popup is open
DayPasses ==
    /\ now < MaxDays
    /\ now' = now + 1
    /\ UNCHANGED <<syncVars, authVars, detailVars, listVars, appData, popupVars, watchVars, forceVars>>

NextPopupAuth ==
    \/ AuthEffect
    \/ PendingStored
    \/ ProbeResolves
    \/ DayPasses

SpecPopupAuth == InitPopupAuth /\ [][NextPopupAuth]_vars

(* Properties of the auth-check effect *)

\* C18: every provider's probe is started at most once; no probe is started
\* for a provider whose stored status is Success with a last auth newer than
\* 24 hours; while the probe runs the stored status is Pending; and once it
\* has resolved the stored status is the status it returned, not Pending.
C18_ProbeOncePendingReplaced ==
    /\ [](\A p \in PopupProviders :
             /\ started[p] <= 1
             /\ probe[p].at = "probing" => appData[p].status = "Pending"
             /\ probe[p].at = "done" =>
                   /\ appData[p].status = probe[p].response.status
                   /\ appData[p].status # "Pending")
    /\ [][\A p \in PopupProviders :
             started'[p] # started[p] =>
                 ~(appData[p].status = "Success" /\ appData[p].lastAuth > now - 1)]_vars

\* C18 witness: one provider was skipped for its fresh Success, one is being
\* probed and shows Pending, one was found not logged in.
C18_Witness ==
    /\ \E p \in PopupProviders :
          started[p] = 0 /\ appData[p].status = "Success" /\ appData[p].lastAuth = now
    /\ \E p \in PopupProviders :
          probe[p].at = "probing" /\ appData[p].status = "Pending"
    /\ \E p \in PopupProviders :
          probe[p].at = "done" /\ appData[p].status = "NotLoggedIn"

----------------------------------------------------------------------------
(* The popup: the stall-timeout effect of Main, beside a sync in its        *)
(* download phase.  Time advances in ticks of 5 seconds.                    *)

\* the 15_000 ms of setTimeout, in ticks
TimerTicks == 3

\* most detail tasks of the running sync
MaxTasks == 3

\* actionOngoing
actionOngoing(pr) == pr.phase # "Complete" /\ pr.phase # "Idle"

\* the dependencies of the effect: [actionOngoing, progress.complete,
\* progress.phase]
deps(pr) ==
    [ongoing |-> actionOngoing(pr), complete |-> pr.complete, phase |-> pr.phase]

Off == [at |-> "off"]

NoCallback == [at |-> "none"]

\* the effect body: setTimeout with originalComplete and originalPhase
\* captured, when an action is ongoing
armed(pr) ==
    IF actionOngoing(pr)
    THEN [at |-> "armed", complete |-> pr.complete, phase |-> pr.phase,
          left |-> TimerTicks]
    ELSE Off

\* the comparison of the callback with the complete count left out
unchangedPhaseOnly(pr, cb) == pr.phase = cb.phase

\* complete === originalComplete && phase == originalPhase
unchangedSinceArmed(pr, cb) == pr.complete = cb.complete /\ pr.phase = cb.phase

UpTo(n) == IF n < TimerTicks THEN n ELSE TimerTicks

\* the ticks since the last progress callback of the sync and since the
\* stored complete or phase last changed, after a write that turns the
\* stored progress from old to new
quietAfter(old, new, byCallback) ==
    [callback |-> IF byCallback THEN 0 ELSE quiet.callback,
     change |-> IF new.complete # old.complete \/ new.phase # old.phase
                THEN 0 ELSE quiet.change]

InitWatchdog ==
    /\ InitForceIdle
    /\ provider = "Amazon"
    /\ SyncIdle
    /\ InitAuthIdle
    /\ InitDetailIdle
    /\ InitListIdle
    /\ InitStoreIdle
    /\ InitPopupIdle
    /\ \E total \in 1..MaxTasks :
          /\ sync = [left |-> total, ok |-> 0, total |-> total]
          /\ progressData = downloadProgress(total, 0)
    /\ shown = deps(progressData)
    /\ timer = armed(progressData)
    /\ callback = NoCallback
    /\ quiet = [callback |-> 0, change |-> 0]
    /\ history = [keptCompleting |-> TRUE, keptChanging |-> TRUE,
                  forcedEarly |-> FALSE]

\* a detail task of the sync succeeds: its progress callback stores one more
\* completed Order
TaskSucceeds ==
    /\ sync.left > 0
    /\ sync' = [sync EXCEPT !.left = @ - 1, !.ok = @ + 1]
    /\ progressData' = downloadProgress(sync.total, sync.ok + 1)
    /\ quiet' = quietAfter(progressData, progressData', TRUE)
    /\ UNCHANGED <<syncVars, authVars, detailVars, listVars, storeVars,
                   popupVars, forceVars, shown, timer, callback, history>>

\* a detail task of the sync fails: its progress callback stores the same
\* complete count again
TaskFails ==
    /\ sync.left > 0
    /\ sync' = [sync EXCEPT !.left = @ - 1]
    /\ progressData' = downloadProgress(sync.total, sync.ok)
    /\ quiet' = quietAfter(progressData, progressData', TRUE)
    /\ UNCHANGED <<syncVars, authVars, detailVars, listVars, storeVars,
                   popupVars, forceVars, shown, timer, callback, history>>

\* Main renders with changed dependencies: the cleanup clears the timeout
\* and the effect arms a new one when an action is ongoing
WatchdogEffect ==
    /\ shown # deps(progressData)
    /\ shown' = deps(progressData)
    /\ timer' = armed(progressData)
    /\ UNCHANGED <<syncVars, authVars, detailVars, listVars, storeVars,
                   popupVars, forceVars, progressData, callback, sync, quiet, history>>

\* the timeout expires: its callback starts and awaits progressStorage.get()
TimerFires ==
    /\ timer.at = "armed"
    /\ timer.left = 0
    /\ callback = NoCallback
    /\ callback' = [at |-> "reading", complete |-> timer.complete,
                    phase |-> timer.phase]
    /\ timer' = Off
    /\ UNCHANGED <<syncVars, authVars, detailVars, listVars, storeVars,
                   popupVars, forceVars, progressData, shown, sync, quiet, history>>

\* progressStorage.get() resolves: the callback compares and, when nothing
\* changed, issues the patch of Complete
GetResolves ==
    /\ callback.at = "reading"
    /\ callback' = IF unchangedSinceArmed(progressData, callback)
                   THEN [callback EXCEPT !.at = "patching"]
                   ELSE NoCallback
    /\ UNCHANGED <<syncVars, authVars, detailVars, listVars, storeVars,
                   popupVars, forceVars, progressData, shown, timer, sync, quiet, history>>

\* progressStorage.patch({phase: Complete}) is stored
PatchStored ==
    /\ callback.at = "patching"
    /\ progressData' = [progressData EXCEPT !.phase = "Complete"]
    /\ callback' = NoCallback
    /\ quiet' = quietAfter(progressData, progressData', FALSE)
    /\ history' = [history EXCEPT !.forcedEarly = @ \/ sync.left > 0]
    /\ UNCHANGED <<syncVars, authVars, detailVars, listVars, storeVars,
                   popupVars, forceVars, shown, timer, sync>>

\* 5 seconds pass; renders and running callbacks take no time
Tick ==
    /\ callback = NoCallback
    /\ shown = deps(progressData)
    /\ timer.at = "armed" => timer.left > 0
    /\ timer' = IF timer.at = "armed" THEN [timer EXCEPT !.left = @ - 1] ELSE timer
    /\ quiet' = [callback |-> UpTo(quiet.callback + 1),
                 change |-> UpTo(quiet.change + 1)]
    /\ history' =
         [history EXCEPT
            !.keptCompleting = @ /\ ~(sync.left > 0 /\ quiet'.callback >= TimerTicks),
            !.keptChanging = @ /\ ~(sync.left > 0 /\ quiet'.change >= TimerTicks)]
    /\ UNCHANGED <<syncVars, authVars, detailVars, listVars, storeVars,
                   popupVars, forceVars, progressData, shown, callback, sync>>

NextWatchdog ==
    \/ TaskSucceeds
    \/ TaskFails
    \/ WatchdogEffect
    \/ TimerFires
    \/ GetResolves
    \/ PatchStored
    \/ Tick

SpecWatchdog == InitWatchdog /\ [][NextWatchdog]_vars

(* Properties of the stall-timeout effect *)

\* C19 as claimed: a sync whose detail tasks keep completing, each less than
\* 15 seconds after the one before, is never forced to Complete while tasks
\* are left.
C19_NeverForcedWhileCompleting ==
    history.forcedEarly => ~history.keptCompleting

\* C19: the watchdog stores Complete only after its callback found the
\* stored complete count and phase equal to those captured when its timer
\* was armed; every render with a changed complete or phase replaces the
\* timer by one armed for 15 seconds with the new values (none when no action
\* is ongoing); so a sync whose stored complete count or phase keeps changing,
\* each change less than 15 seconds after the one before, is never forced to
\* Complete while tasks are left.
C19_ForcedOnlyWhenUnchanged ==
    /\ [](/\ timer.at = "armed" =>
                /\ shown.ongoing
                /\ timer.complete = shown.complete
                /\ timer.phase = shown.phase
          /\ history.forcedEarly => ~history.keptChanging)
    /\ [][/\ (callback.at = "reading" /\ callback'.at = "patching") =>
                /\ progressData.complete = callback.complete
                /\ progressData.phase = callback.phase
          /\ (progressData.phase # "Complete" /\ progressData'.phase = "Complete") =>
                callback.at = "patching"
          /\ shown' # shown =>
                timer' = IF shown'.ongoing
                         THEN [at |-> "armed", complete |-> shown'.complete,
                               phase |-> shown'.phase, left |-> 3]
                         ELSE [at |-> "off"]]_vars

\* C19 witness: a timer has expired and its callback is reading the stored
\* progress, which a task that succeeded in the meantime has changed.
C19_Witness ==
    /\ callback.at = "reading"
    /\ progressData.complete # callback.complete
    /\ progressData.phase = callback.phase
    /\ sync.left > 0

----------------------------------------------------------------------------
(* The popup: the Force sync button of Main, beside the writers of          *)
(* appStorage and progressStorage                                           *)

\* most messages the popup sends
MaxMessages == 2

\* the phases of ProgressPhase: the two a sync reports between Idle and
\* Complete
ProgressPhases == {"Idle", "PageScan", "OrderDownload", "Complete"}

\* the phases a writer of progressStorage stores after ph: a sync starts with
\* the scan of a provider, downloads, and ends or goes on to the next
\* provider; the stall timeout stores Complete over any ongoing phase
nextPhases(ph) ==
    CASE ph \in {"Idle", "Complete"} -> {"PageScan"}
      [] ph = "PageScan" -> {"OrderDownload", "Complete"}
      [] ph = "OrderDownload" -> {"PageScan", "Complete"}

\* what a render of Main reads through useStorage: the status of every
\* provider and the progress phase
snapshot(data, pr) ==
    [status |-> [p \in PopupProviders |-> data[p].status], phase |-> pr.phase]

\* ready without the test of actionOngoing
readyWhileOngoing(view) ==
    \A p \in PopupProviders : view.status[p] = "Success"

\* ready: providers.every(provider => provider.status === AuthStatus.Success)
\* && !actionOngoing
ready(view) ==
    (\A p \in PopupProviders : view.status[p] = "Success") /\ ~actionOngoing(view)

InitForceSync ==
    /\ provider = "Amazon"
    /\ SyncIdle
    /\ InitAuthIdle
    /\ InitDetailIdle
    /\ InitListIdle
    /\ InitPopupIdle
    /\ appData \in [PopupProviders ->
                      [status : AuthStatuses, lastAuth : {0}, year : {2015}]]
    /\ now = 0
    /\ progressData \in {[phase |-> ph, total |-> 0, complete |-> 0] :
                           ph \in ProgressPhases}
    /\ shown = "idle"
    /\ timer = "idle"
    /\ callback = "idle"
    /\ sync = "idle"
    /\ quiet = "idle"
    /\ history = "idle"
    /\ rendered = snapshot(appData, progressData)
    /\ messages = <<>>

\* a writer of appStorage stores a provider's status: the auth-check effect
\* of the popup (Pending, then the response) or checkAuth of a running sync
StatusStored ==
    /\ \E p \in PopupProviders : \E status \in AuthStatuses :
          /\ status # appData[p].status
          /\ appData' = patch(appData, p, [status |-> status])
    /\ UNCHANGED <<syncVars, authVars, detailVars, listVars, now, popupVars,
                   watchVars, forceVars>>

\* a writer of progressStorage stores the next phase: the running sync, or
\* the stall timeout of the popup
PhaseStored ==
    /\ \E ph \in nextPhases(progressData.phase) :
          progressData' = [progressData EXCEPT !.phase = ph]
    /\ UNCHANGED <<syncVars, authVars, detailVars, listVars, storeVars,
                   popupVars, forceVars, shown, timer, callback, sync, quiet,
                   history>>

\* the storages have changed and Main renders: progress and appData are read
\* anew, and ready and forceSync are those of this render
Render ==
    /\ rendered # snapshot(appData, progressData)
    /\ rendered' = snapshot(appData, progressData)
    /\ UNCHANGED <<syncVars, authVars, detailVars, listVars, storeVars,
                   popupVars, watchVars, messages>>

\* the Force sync button is clicked: it is disabled when not ready, and
\* forceSync returns when not ready; otherwise FullSync is sent
ForceSync ==
    /\ ready(rendered)
    /\ Len(messages) < MaxMessages
    /\ messages' = Append(messages, [action |-> "FullSync"])
    /\ UNCHANGED <<syncVars, authVars, detailVars, listVars, storeVars,
                   popupVars, watchVars, rendered>>

NextForceSync ==
    \/ StatusStored
    \/ PhaseStored
    \/ Render
    \/ ForceSync

SpecForceSync == InitForceSync /\ [][NextForceSync]_vars

(* Properties of the Force sync button *)

\* C21 as claimed: FullSync is sent only in a state where every provider's
\* stored status is Success and the stored progress phase is Idle or
\* Complete.
C21_SentOnlyWhenStoredReady ==
    [][messages' # messages =>
          /\ \A p \in PopupProviders : appData[p].status = "Success"
          /\ progressData.phase \in {"Idle", "Complete"}]_vars

\* C21: the popup sends nothing but FullSync, and sends it only when, in the
\* values its latest render read from the two storages, every provider's
\* status is Success and the progress phase is Idle or Complete; what a
\* render reads is what the storages hold at the time of the render.
C21_SentOnlyWhenRenderedReady ==
    /\ [](\A k \in DOMAIN messages : messages[k].action = "FullSync")
    /\ [][/\ messages' # messages =>
                /\ Len(messages') = Len(messages) + 1
                /\ \A p \in PopupProviders : rendered.status[p] = "Success"
                /\ rendered.phase \in {"Idle", "Complete"}
          /\ rendered' # rendered =>
                /\ \A p \in PopupProviders :
                      rendered'.status[p] = appData[p].status
                /\ rendered'.phase = progressData.phase]_vars

\* C21 witness: FullSync was sent, a sync has started since and the popup
\* has rendered its phase, so the button is disabled.
C21_Witness ==
    /\ Len(messages) = 1
    /\ \A p \in PopupProviders : rendered.status[p] = "Success"
    /\ rendered.phase = "PageScan"
    /\ progressData.phase = "PageScan"

----------------------------------------------------------------------------
(* Provider.checkAuth of providerApi.ts, inherited by WalmartProvider *)

\* the documents doCheckAuth may meet: those of the auth probe with at most
\* two options in the year filter
CheckAuthInputs == {in \in AuthInputs : Len(in.options) <= 2}

\* the patch made for every status alike
storeAuthAlways(data, p, result) ==
    patch(data, p, [status |-> result.status, lastAuth |-> now,
                    startingYear |-> IF "startingYear" \in DOMAIN result
                                     THEN result.startingYear ELSE NaN])

\* the if / else of checkAuth: status, last-updated time and starting year on
\* Success, the status alone otherwise
storeAuth(data, p, result) ==
    IF result.status = "Success"
    THEN patch(data, p, [status |-> "Success", lastAuth |-> now,
                         startingYear |-> result.startingYear])
    ELSE patch(data, p, [status |-> result.status])

InitCheckAuth ==
    /\ InitForceIdle
    /\ provider = "Walmart"
    /\ SyncIdle
    /\ InitDetailIdle
    /\ InitListIdle
    /\ InitPopupIdle
    /\ InitWatchIdle
    /\ authIn \in CheckAuthInputs
    /\ authOut = NotCalled
    /\ now \in 0..MaxDays
    /\ appData \in [{provider} ->
                      [status : AuthStatuses, lastAuth : {-1, 0},
                       startingYear : {Normal(2015, 0)}]]

\* one call of checkAuth(): doCheckAuth, then the patch
CheckAuth ==
    /\ authOut = NotCalled
    /\ authOut' = doCheckAuth(provider, authIn)
    /\ appData' = storeAuth(appData, provider, authOut')
    /\ UNCHANGED <<syncVars, detailVars, listVars, popupVars, watchVars, forceVars,
                   authIn, now>>

NextCheckAuth == CheckAuth

SpecCheckAuth == InitCheckAuth /\ [][NextCheckAuth]_vars

(* Properties of Provider.checkAuth *)

\* C20: a call of checkAuth leaves the status doCheckAuth returned in the
\* store; with Success also the current time as last-updated time and the
\* returned startingYear; with NotLoggedIn or Failure the stored last-updated
\* time and starting year stay as they were.
C20_CheckAuthStores ==
    [][authOut' # authOut =>
          /\ appData'[provider].status = authOut'.status
          /\ authOut'.status = "Success" =>
                /\ appData'[provider].lastAuth = now
                /\ appData'[provider].startingYear = authOut'.startingYear
          /\ authOut'.status \in {"NotLoggedIn", "Failure"} =>
                /\ appData'[provider].lastAuth = appData[provider].lastAuth
                /\ appData'[provider].startingYear = appData[provider].startingYear
          /\ DOMAIN appData'[provider] = DOMAIN appData[provider]]_vars

\* C20 witness: the probe found the user not logged in a day after the last
\* successful auth: the status is stored, the older time and year are kept.
C20_Witness ==
    /\ authOut.status = "NotLoggedIn"
    /\ appData[provider].status = "NotLoggedIn"
    /\ appData[provider].lastAuth < now
    /\ appData[provider].startingYear = Normal(2015, 0)

====
